---- MODULE Spec2Model ----
(***************************************************************************)
(* RangeClamp: the trial-bound widget of js/extras.js.                     *)
(*                                                                         *)
(* The page holds a global `params` object (fields subject, trial), a      *)
(* paired numeric-entry/slider control for the subject and for the trial,  *)
(* and a "Max: N" label.  extras.js binds one handler to the change/input  *)
(* events of the subject pair and one to those of the trial pair.          *)
(*                                                                         *)
(* DOM values, attributes and params fields are strings, as in the page.   *)
(* jQuery's .val(x) and .attr({max: x}) store the string form of x;        *)
(* .attr with an undefined value writes nothing.                           *)
(***************************************************************************)
EXTENDS Integers, Sequences, FiniteSets, TLC

\* Largest number the user enters in the subject / trial control.
MaxSubjectInput == 20
MaxTrialInput == 7

\* extras.js:2
max == <<6, 4, 6, 6, 6, 6, 6, 6, 6, 6, 6, 6, 6, 4, 6, 6, 6, 6, 6>>

VARIABLES
    attached,       \* the ready callback has run: both bindings are in place
    table,          \* the elements of the array the const max is bound to
    paramsSubject,  \* params.subject
    paramsTrial,    \* params.trial
    numberSubject,  \* $("#number_subject").val()
    rangeSubject,   \* $("#range_subject").val()
    numberTrial,    \* $("#number_trial").val()
    rangeTrial,     \* $("#range_trial").val()
    numberMax,      \* max attribute of #number_trial
    rangeMax,       \* max attribute of #range_trial
    label,          \* html of #maxmin-1 > span:nth-child(1)
    pending,        \* the event being dispatched, <<>> when none
    last,           \* the handler that ran last: "none", "subject", "trial"
    runs,           \* the handler runs the latest event has had
    pre             \* the page, and last, as the latest event found them
                    \* once the host had mirrored the entry; unchanged
                    \* tells that the entry was the value already there,
                    \* event which event it was and attached whether the
                    \* bindings were in place

vars == <<attached, table, paramsSubject, paramsTrial, numberSubject, rangeSubject,
          numberTrial, rangeTrial, numberMax, rangeMax, label, pending,
          last, runs, pre>>

----------------------------------------------------------------------------
(* Strings and numbers *)

Numerals == 0..(MaxSubjectInput + MaxTrialInput)

\* The string is a decimal numeral; parseInt of anything else here
\* (the empty entry) is NaN.
IsNumeral(s) == \E n \in Numerals : ToString(n) = s

\* parseInt(s) for a numeral s.
parseInt(s) == CHOOSE n \in Numerals : ToString(n) = s

\* What the user can leave in a control: a numeral, or an emptied entry.
SubjectInputs == {""} \cup {ToString(n) : n \in 0..MaxSubjectInput}
TrialInputs == {""} \cup {ToString(n) : n \in 0..MaxTrialInput}

----------------------------------------------------------------------------
(* The statements of the two handlers *)

\* max[subject - 1] is an element of the table (not undefined): subject is
\* not NaN and the 0-based index subject - 1 is within the array.
InTable(subject) ==
    /\ IsNumeral(subject)
    /\ parseInt(subject) - 1 \in 0..(Len(table) - 1)

\* let subjectsMax = max[subject - 1], for an index within the array
\* (TLA+ sequences are 1-based, the array is 0-based).
subjectsMax(subject) == table[(parseInt(subject) - 1) + 1]

\* Variant: the max attribute is never written.
AttrMaxUnset(old, subject) == old

\* .attr({ "max": subjectsMax }) on an element whose max attribute is old.
AttrMax(old, subject) ==
    IF InTable(subject) THEN ToString(subjectsMax(subject)) ELSE old

\* "Max: " + subjectsMax
LabelHtml(subject) ==
    "Max: " \o (IF InTable(subject) THEN ToString(subjectsMax(subject))
                                    ELSE "undefined")

\* Variant: the comparison is turned round, parseInt(params.trial) <=
\* subjectsMax.
ClampCondReversed(trial, subject) ==
    /\ InTable(subject)
    /\ IsNumeral(trial)
    /\ parseInt(trial) <= subjectsMax(subject)

\* parseInt(params.trial) >= subjectsMax; false when either side is NaN or
\* undefined.
ClampCond(trial, subject) ==
    /\ InTable(subject)
    /\ IsNumeral(trial)
    /\ parseInt(trial) >= subjectsMax(subject)

\* if (parseInt(params.trial) >= subjectsMax) .val(subjectsMax), on an
\* element whose value is old.
ClampVal(old, trial, subject) ==
    IF ClampCond(trial, subject) THEN ToString(subjectsMax(subject)) ELSE old

\* The part of the page the handlers read or write.
Page ==
    [paramsSubject |-> paramsSubject, paramsTrial |-> paramsTrial,
     numberSubject |-> numberSubject, rangeSubject |-> rangeSubject,
     numberTrial |-> numberTrial, rangeTrial |-> rangeTrial,
     numberMax |-> numberMax, rangeMax |-> rangeMax, label |-> label,
     table |-> table]

\* Variant: params.trial is not read back from the slider.
changeSubjectHandlerNoReadBack(p) ==
    [p EXCEPT
        !.numberMax = AttrMax(p.numberMax, p.paramsSubject),
        !.rangeMax = AttrMax(p.rangeMax, p.paramsSubject),
        !.label = LabelHtml(p.paramsSubject),
        !.numberTrial = ClampVal(p.numberTrial, p.paramsTrial, p.paramsSubject),
        !.rangeTrial = ClampVal(p.rangeTrial, p.paramsTrial, p.paramsSubject)]

\* Variant: params.trial is read back from the slider before the clamp.
changeSubjectHandlerReadFirst(p) ==
    [p EXCEPT
        !.numberMax = AttrMax(p.numberMax, p.paramsSubject),
        !.rangeMax = AttrMax(p.rangeMax, p.paramsSubject),
        !.label = LabelHtml(p.paramsSubject),
        !.numberTrial = ClampVal(p.numberTrial, p.paramsTrial, p.paramsSubject),
        !.rangeTrial = ClampVal(p.rangeTrial, p.paramsTrial, p.paramsSubject),
        !.paramsTrial = p.rangeTrial]

\* Variant: the clamp is decided from the slider's value, not from
\* params.trial.
changeSubjectHandlerFromControl(p) ==
    LET clamped == ClampVal(p.rangeTrial, p.rangeTrial, p.paramsSubject)
    IN  [p EXCEPT
            !.numberMax = AttrMax(p.numberMax, p.paramsSubject),
            !.rangeMax = AttrMax(p.rangeMax, p.paramsSubject),
            !.label = LabelHtml(p.paramsSubject),
            !.numberTrial = ClampVal(p.numberTrial, p.rangeTrial, p.paramsSubject),
            !.rangeTrial = clamped,
            !.paramsTrial = clamped]

\* Variant: the clamp is stored into the subject's element of the array
\* instead of the trial elements.
changeSubjectHandlerWritesTable(p) ==
    [p EXCEPT
        !.numberMax = AttrMax(p.numberMax, p.paramsSubject),
        !.rangeMax = AttrMax(p.rangeMax, p.paramsSubject),
        !.label = LabelHtml(p.paramsSubject),
        !.table = IF ClampCond(p.paramsTrial, p.paramsSubject)
                  THEN [p.table EXCEPT ![(parseInt(p.paramsSubject) - 1) + 1] =
                                            parseInt(p.paramsTrial)]
                  ELSE p.table,
        !.paramsTrial = p.rangeTrial]

\* function changeSubjectHandler(): the page it leaves, from the page p.
changeSubjectHandler(p) ==
    LET clamped == ClampVal(p.rangeTrial, p.paramsTrial, p.paramsSubject)
    IN  [p EXCEPT
            !.numberMax = AttrMax(p.numberMax, p.paramsSubject),
            !.rangeMax = AttrMax(p.rangeMax, p.paramsSubject),
            !.label = LabelHtml(p.paramsSubject),
            !.numberTrial = ClampVal(p.numberTrial, p.paramsTrial, p.paramsSubject),
            !.rangeTrial = clamped,
            !.paramsTrial = clamped]

\* Variant: the trial handler refreshes the max attributes and the label
\* as changeSubjectHandler does.
trialHandlerSetsMax(p) ==
    [p EXCEPT
        !.numberMax = AttrMax(p.numberMax, p.paramsSubject),
        !.rangeMax = AttrMax(p.rangeMax, p.paramsSubject),
        !.label = LabelHtml(p.paramsSubject),
        !.numberTrial = ClampVal(p.numberTrial, p.paramsTrial, p.paramsSubject),
        !.rangeTrial = ClampVal(p.rangeTrial, p.paramsTrial, p.paramsSubject)]

\* Variant: the clamp reaches the slider only.
trialHandlerRangeOnly(p) ==
    [p EXCEPT
        !.rangeTrial = ClampVal(p.rangeTrial, p.paramsTrial, p.paramsSubject)]

\* Variant: params.trial is read back from the slider, as in
\* changeSubjectHandler.
trialHandlerReadBack(p) ==
    LET clamped == ClampVal(p.rangeTrial, p.paramsTrial, p.paramsSubject)
    IN  [p EXCEPT
            !.numberTrial = ClampVal(p.numberTrial, p.paramsTrial, p.paramsSubject),
            !.rangeTrial = clamped,
            !.paramsTrial = clamped]

\* The handler bound to the trial pair: the page it leaves, from the page p.
trialHandler(p) ==
    [p EXCEPT
        !.numberTrial = ClampVal(p.numberTrial, p.paramsTrial, p.paramsSubject),
        !.rangeTrial = ClampVal(p.rangeTrial, p.paramsTrial, p.paramsSubject)]

----------------------------------------------------------------------------
(* The page *)

Elements == {"number", "range"}
EventTypes == {"change", "input"}

\* Variant: the subject handler is bound to 'change' only.
SubjectBindingChangeOnly ==
    [ctl |-> "subject", elements |-> {"number", "range"}, events |-> {"change"}]

\* $("#number_subject, #range_subject").on('change input', ...)
SubjectBinding ==
    [ctl |-> "subject", elements |-> {"number", "range"},
     events |-> {"change", "input"}]

\* $("#number_trial, #range_trial").on('change input', ...)
TrialBinding ==
    [ctl |-> "trial", elements |-> {"number", "range"},
     events |-> {"change", "input"}]

\* What an event of type ev on element el of the pair leaves to dispatch,
\* given the binding b of the pair: the event when .on() has been called
\* and selects the element and the type, nothing otherwise.
Dispatch(b, el, ev) ==
    IF attached /\ el \in b.elements /\ ev \in b.events
    THEN <<[ctl |-> b.ctl, el |-> el, ev |-> ev]>>
    ELSE <<>>

\* The largest entry of the table.
TableMax == CHOOSE m \in {max[i] : i \in 1..Len(max)} :
                \A i \in 1..Len(max) : max[i] <= m

\* The page as the host built it: a subject of the data set and one of its
\* trials; the trial pair admits the trials of every subject and the label
\* shows that maximum.
Init ==
    /\ attached = FALSE
    /\ table = max
    /\ \E n \in 1..Len(max) :
          /\ paramsSubject = ToString(n)
          /\ paramsTrial \in {ToString(k) : k \in 1..max[n]}
    /\ numberSubject = paramsSubject
    /\ rangeSubject = paramsSubject
    /\ numberTrial = paramsTrial
    /\ rangeTrial = paramsTrial
    /\ numberMax = ToString(TableMax)
    /\ rangeMax = ToString(TableMax)
    /\ label = "Max: " \o ToString(TableMax)
    /\ pending = <<>>
    /\ last = "none"
    /\ runs = 0
    /\ pre = Page @@ [last |-> "none", unchanged |-> TRUE,
                      event |-> [ctl |-> "none", el |-> "none", ev |-> "none"],
                      attached |-> FALSE]

\* Variant: the ready callback also calls changeSubjectHandler() once.
ReadyRunsHandler ==
    /\ ~attached
    /\ attached' = TRUE
    /\ LET q == changeSubjectHandler(Page)
       IN  /\ paramsSubject' = q.paramsSubject
           /\ paramsTrial' = q.paramsTrial
           /\ numberSubject' = q.numberSubject
           /\ rangeSubject' = q.rangeSubject
           /\ numberTrial' = q.numberTrial
           /\ rangeTrial' = q.rangeTrial
           /\ numberMax' = q.numberMax
           /\ rangeMax' = q.rangeMax
           /\ label' = q.label
           /\ table' = q.table
    /\ UNCHANGED <<pending, last, runs, pre>>

\* $(document).ready(function () { ... }): the two .on() calls.
Ready ==
    /\ ~attached
    /\ attached' = TRUE
    /\ UNCHANGED <<table, paramsSubject, paramsTrial, numberSubject,
                   rangeSubject, numberTrial, rangeTrial, numberMax, rangeMax,
                   label, pending, last, runs, pre>>

\* The user enters s in one element of the subject pair; the host mirrors
\* it into the other element and into params.subject, and the event goes
\* to the handlers bound to it.
UserSubject(s, el, ev) ==
    /\ pending = <<>>
    /\ paramsSubject' = s
    /\ numberSubject' = s
    /\ rangeSubject' = s
    /\ pending' = Dispatch(SubjectBinding, el, ev)
    /\ runs' = 0
    /\ pre' = [Page EXCEPT !.paramsSubject = s, !.numberSubject = s,
                            !.rangeSubject = s]
               @@ [last |-> last, unchanged |-> (s = paramsSubject),
                   event |-> [ctl |-> "subject", el |-> el, ev |-> ev],
                   attached |-> attached]
    /\ UNCHANGED <<attached, table, paramsTrial, numberTrial, rangeTrial,
                   numberMax, rangeMax, label, last>>

\* The same for the trial pair and params.trial.
UserTrial(t, el, ev) ==
    /\ pending = <<>>
    /\ paramsTrial' = t
    /\ numberTrial' = t
    /\ rangeTrial' = t
    /\ pending' = Dispatch(TrialBinding, el, ev)
    /\ runs' = 0
    /\ pre' = [Page EXCEPT !.paramsTrial = t, !.numberTrial = t,
                            !.rangeTrial = t]
               @@ [last |-> last, unchanged |-> (t = paramsTrial),
                   event |-> [ctl |-> "trial", el |-> el, ev |-> ev],
                   attached |-> attached]
    /\ UNCHANGED <<attached, table, paramsSubject, numberSubject,
                   rangeSubject, numberMax, rangeMax, label, last>>

\* The page becomes q after the handler named kind.
Leave(q, kind) ==
    /\ paramsSubject' = q.paramsSubject
    /\ paramsTrial' = q.paramsTrial
    /\ numberSubject' = q.numberSubject
    /\ rangeSubject' = q.rangeSubject
    /\ numberTrial' = q.numberTrial
    /\ rangeTrial' = q.rangeTrial
    /\ numberMax' = q.numberMax
    /\ rangeMax' = q.rangeMax
    /\ label' = q.label
    /\ table' = q.table
    /\ pending' = <<>>
    /\ last' = kind
    /\ runs' = runs + 1
    /\ UNCHANGED <<attached, pre>>

\* $("#number_subject, #range_subject").on('change input', changeSubjectHandler)
OnSubject ==
    /\ pending # <<>>
    /\ Head(pending).ctl = "subject"
    /\ Leave(changeSubjectHandler(Page), "subject")

\* $("#number_trial, #range_trial").on('change input', function () { ... })
OnTrial ==
    /\ pending # <<>>
    /\ Head(pending).ctl = "trial"
    /\ Leave(trialHandler(Page), "trial")

Next ==
    \/ Ready
    \/ \E s \in SubjectInputs, el \in Elements, ev \in EventTypes :
          UserSubject(s, el, ev)
    \/ \E t \in TrialInputs, el \in Elements, ev \in EventTypes :
          UserTrial(t, el, ev)
    \/ OnSubject
    \/ OnTrial

Spec == Init /\ [][Next]_vars

----------------------------------------------------------------------------
(* Properties *)

Subjects == 1..Len(max)

\* A handler of the given kind has run to completion and nothing is pending.
Settled(kind) == pending = <<>> /\ last = kind

\* params.subject reads as subject n of the table.
SubjectIs(n) == paramsSubject = ToString(n)

\* The string is a numeral of a number within lo..hi.
Within(s, lo, hi) == \E k \in lo..hi : s = ToString(k)

\* C1: once a handler has run and nothing is pending, params.trial and both
\* trial elements hold a number in 1..max[subject - 1] and the label reads
\* "Max: " followed by max[subject - 1].
C1_TrialWithinMax ==
    \A n \in Subjects :
        ((Settled("subject") \/ Settled("trial")) /\ SubjectIs(n)) =>
            /\ Within(paramsTrial, 1, max[n])
            /\ Within(numberTrial, 1, max[n])
            /\ Within(rangeTrial, 1, max[n])
            /\ label = "Max: " \o ToString(max[n])

\* C2: after changeSubjectHandler with params.subject = s in 1..19, the max
\* attribute of both trial elements is max[s - 1] and the label reads
\* "Max: " followed by max[s - 1].
C2_SubjectSetsMaxAndLabel ==
    \A n \in Subjects :
        (Settled("subject") /\ SubjectIs(n)) =>
            /\ numberMax = ToString(max[n])
            /\ rangeMax = ToString(max[n])
            /\ label = "Max: " \o ToString(max[n])

\* changeSubjectHandler has replaced a max attribute of 6 and the label
\* "Max: 6" by 4 and "Max: 4".
C2_Witness ==
    /\ Settled("subject")
    /\ SubjectIs(14)
    /\ pre.numberMax = "6" /\ pre.rangeMax = "6" /\ pre.label = "Max: 6"
    /\ numberMax = "4" /\ rangeMax = "4" /\ label = "Max: 4"

\* C3: after changeSubjectHandler with params.subject = s in 1..19 and
\* params.trial = t: if t >= max[s - 1] both trial elements hold max[s - 1],
\* otherwise both hold t.
C3_ClampOrKeep ==
    \A n \in Subjects :
        (Settled("subject") /\ SubjectIs(n)) =>
            IF IsNumeral(pre.paramsTrial) /\ parseInt(pre.paramsTrial) >= max[n]
            THEN numberTrial = ToString(max[n]) /\ rangeTrial = ToString(max[n])
            ELSE numberTrial = pre.paramsTrial /\ rangeTrial = pre.paramsTrial

\* C4: after changeSubjectHandler, params.trial is the value of the trial
\* control; where the control was clamped, params.trial is the maximum too.
C4_ParamsTrialReadBack ==
    Settled("subject") =>
        /\ paramsTrial = rangeTrial
        /\ paramsTrial = numberTrial
        /\ \A n \in Subjects :
              (SubjectIs(n) /\ rangeTrial # pre.rangeTrial) =>
                  paramsTrial = ToString(max[n])

\* subject = 14, trial = 6: the control ends at 4, the label at "Max: 4" and
\* params.trial at 4.
C4_Witness ==
    /\ Settled("subject")
    /\ SubjectIs(14)
    /\ pre.paramsTrial = "6" /\ pre.rangeTrial = "6" /\ pre.numberTrial = "6"
    /\ rangeTrial = "4" /\ numberTrial = "4"
    /\ label = "Max: 4"
    /\ paramsTrial = "4"

\* C5: after the trial handler with params.subject = s in 1..19: if the trial
\* value was >= max[s - 1] both trial elements hold max[s - 1], otherwise
\* they are as they were; a number in a trial element is at most max[s - 1].
C5_TrialClamp ==
    \A n \in Subjects :
        (Settled("trial") /\ SubjectIs(n)) =>
            /\ IF IsNumeral(pre.paramsTrial) /\ parseInt(pre.paramsTrial) >= max[n]
               THEN numberTrial = ToString(max[n]) /\ rangeTrial = ToString(max[n])
               ELSE numberTrial = pre.numberTrial /\ rangeTrial = pre.rangeTrial
            /\ IsNumeral(numberTrial) => parseInt(numberTrial) <= max[n]
            /\ IsNumeral(rangeTrial) => parseInt(rangeTrial) <= max[n]

\* The trial handler has brought an entry of 7 down to 4.
C5_Witness ==
    /\ Settled("trial")
    /\ SubjectIs(2)
    /\ pre.numberTrial = "7" /\ pre.rangeTrial = "7"
    /\ numberTrial = "4" /\ rangeTrial = "4"

\* C6: the trial handler leaves params.trial as it found it, also when it
\* clamps the trial elements.
C6_TrialHandlerKeepsParamsTrial ==
    Settled("trial") => paramsTrial = pre.paramsTrial

\* The trial handler has clamped the trial elements and params.trial still
\* holds the entry.
C6_Witness ==
    /\ Settled("trial")
    /\ numberTrial # pre.numberTrial
    /\ rangeTrial # pre.rangeTrial
    /\ paramsTrial = pre.paramsTrial
    /\ paramsTrial # rangeTrial

\* The fields of the page a handler can write.
Written(p) ==
    <<p.paramsTrial, p.numberTrial, p.rangeTrial, p.numberMax, p.rangeMax,
      p.label>>

\* C7: a second changeSubjectHandler run, right after a first and with
\* params.subject unchanged, leaves the page as the first run left it.
C7_SubjectIdempotent ==
    (Settled("subject") /\ pre.last = "subject" /\ pre.unchanged) =>
        Written(Page) = Written(pre)

\* The second of two successive runs, the first of which had clamped: the
\* page is at the maximum and params.trial with it.
C7_Witness ==
    /\ Settled("subject")
    /\ pre.last = "subject"
    /\ pre.unchanged
    /\ SubjectIs(2)
    /\ pre.rangeTrial = "4"
    /\ paramsTrial = "4"
    /\ Written(Page) = Written(pre)

\* C8: in either handler, when the trial value equals max[subject - 1], the
\* trial elements hold after the handler what they held before it.
C8_TieLeavesControl ==
    \A n \in Subjects :
        ( /\ Settled("subject") \/ Settled("trial")
          /\ SubjectIs(n)
          /\ pre.paramsTrial = ToString(max[n]) ) =>
            /\ numberTrial = pre.numberTrial
            /\ rangeTrial = pre.rangeTrial

\* C9: with params.subject outside 1..19 a handler changes nothing: trial
\* elements, max attributes, label and params.trial are as it found them.
C9_OutOfRangeSubjectNoOp ==
    ( /\ Settled("subject") \/ Settled("trial")
      /\ \A n \in Subjects : ~SubjectIs(n) ) =>
        Written(Page) = Written(pre)

\* C11: the array max is bound to holds the 19 elements
\* 6,4,6,6,6,6,6,6,6,6,6,6,6,4,6,6,6,6,6 in every state; no handler writes
\* an element of it.
C11_TableConstant ==
    /\ Len(table) = 19
    /\ table = <<6, 4, 6, 6, 6, 6, 6, 6, 6, 6, 6, 6, 6, 4, 6, 6, 6, 6, 6>>

\* Both handlers have run, the subject handler last and with a clamp, and
\* the array is as the literal of extras.js:2.
C11_Witness ==
    /\ Settled("subject")
    /\ pre.last = "trial"
    /\ rangeTrial # pre.rangeTrial
    /\ table = max

\* C12: once the bindings are in place, every change and every input event
\* on either element of the subject pair gets one run of
\* changeSubjectHandler and every such event on the trial pair one run of
\* the trial handler: the event is taken up for dispatch, and when nothing
\* is pending the handler of its pair has run once for it.
C12_EveryEventHandledOnce ==
    /\ pending # <<>> => (runs = 0 /\ Head(pending) = pre.event)
    /\ (pending = <<>> /\ pre.attached) =>
            (runs = 1 /\ last = pre.event.ctl)

\* An input event on the slider of the trial pair has had its handler run.
C12_Witness ==
    /\ pending = <<>>
    /\ pre.attached
    /\ pre.event = [ctl |-> "trial", el |-> "range", ev |-> "input"]
    /\ runs = 1
    /\ last = "trial"

\* params.trial and both trial elements of the page p hold the same value.
Agree(p) == p.paramsTrial = p.numberTrial /\ p.paramsTrial = p.rangeTrial

\* The string s, when a numeral, is of a number at most m.
AtMost(s, m) == IsNumeral(s) => parseInt(s) <= m

\* C13: with params.subject = s in 1..19 both handlers decide the clamp from
\* params.trial: the trial elements are set to max[s - 1] when
\* parseInt(params.trial) >= max[s - 1] and are left alone otherwise,
\* whatever they hold themselves.  So when params.trial and the trial
\* elements agree before the handler, a number held after
\* changeSubjectHandler by params.trial or a trial element, and after the
\* trial handler by a trial element, is at most max[s - 1].
C13_ClampDecidedFromParamsTrial ==
    \A n \in Subjects :
        ((Settled("subject") \/ Settled("trial")) /\ SubjectIs(n)) =>
            /\ IF IsNumeral(pre.paramsTrial) /\ parseInt(pre.paramsTrial) >= max[n]
               THEN numberTrial = ToString(max[n]) /\ rangeTrial = ToString(max[n])
               ELSE numberTrial = pre.numberTrial /\ rangeTrial = pre.rangeTrial
            /\ Agree(pre) =>
                  /\ AtMost(numberTrial, max[n])
                  /\ AtMost(rangeTrial, max[n])
                  /\ Settled("subject") => AtMost(paramsTrial, max[n])

\* changeSubjectHandler found params.trial and the trial elements agreeing
\* on 5 under a subject of 4 trials and has left all three at 4.
C13_Witness ==
    /\ Settled("subject")
    /\ SubjectIs(14)
    /\ Agree(pre)
    /\ pre.paramsTrial = "5"
    /\ Agree(Page)
    /\ paramsTrial = "4"

\* The trial handler has left max attributes and label as it found them;
\* either handler has left params.subject and the subject elements so.
FrameAfterHandler ==
    /\ Settled("trial") =>
          /\ numberMax = pre.numberMax
          /\ rangeMax = pre.rangeMax
          /\ label = pre.label
    /\ (Settled("subject") \/ Settled("trial")) =>
          /\ paramsSubject = pre.paramsSubject
          /\ numberSubject = pre.numberSubject
          /\ rangeSubject = pre.rangeSubject

\* A step that changes a max attribute or the label is a run of
\* changeSubjectHandler.
MaxChangesInSubjectHandler ==
    (numberMax' # numberMax \/ rangeMax' # rangeMax \/ label' # label) =>
        /\ pending # <<>>
        /\ Head(pending).ctl = "subject"
        /\ last' = "subject"

\* C14: the trial handler leaves the max attribute of the trial elements
\* and the label unchanged, neither handler writes params.subject or the
\* subject elements, and the max attribute and the label change only in
\* changeSubjectHandler.
C14_HandlerFrames ==
    []FrameAfterHandler /\ [][MaxChangesInSubjectHandler]_vars

\* The trial handler has clamped the trial elements of subject 2 to 4 and
\* the label still shows the maximum of the markup.
C14_Witness ==
    /\ Settled("trial")
    /\ SubjectIs(2)
    /\ rangeTrial # pre.rangeTrial
    /\ rangeTrial = "4"
    /\ label = pre.label
    /\ label = "Max: 6"
    /\ numberMax = "6" /\ rangeMax = "6"

\* The fields of Page, taken from the record p.
PageOf(p) == [f \in DOMAIN Page |-> p[f]]

\* Until the first event the page is as the host built it, and until the
\* first handler run the max attributes and the label are those of the
\* markup.
KeptUntilFirstEvent ==
    /\ pre.event.ctl = "none" => (Page = PageOf(pre) /\ last = "none")
    /\ last = "none" =>
          /\ numberMax = ToString(TableMax)
          /\ rangeMax = ToString(TableMax)
          /\ label = "Max: " \o ToString(TableMax)

\* The step of the ready callback runs no handler and leaves the page.
ReadyOnlyAttaches ==
    (~attached /\ attached') =>
        /\ Page' = Page
        /\ last' = last
        /\ runs' = runs
        /\ pending' = pending

\* C15: the ready callback only registers the handlers: it runs none, and
\* max attributes, label, trial elements and params keep the values the
\* host supplied until the first event; the label and the max attributes
\* are not set to max[subject - 1] before a handler runs.
C15_AttachmentOnlyRegisters ==
    []KeptUntilFirstEvent /\ [][ReadyOnlyAttaches]_vars

\* The bindings are in place, no event has come, and the page of subject 2
\* (4 trials) still shows the maximum of the markup.
C15_Witness ==
    /\ attached
    /\ pre.event.ctl = "none"
    /\ SubjectIs(2)
    /\ max[2] = 4
    /\ numberMax = "6" /\ rangeMax = "6"
    /\ label = "Max: 6"

\* The handler that has just run under subject n changed the value of a
\* trial element from was to now: now is max[n - 1], which is 4 or 6, and
\* params.trial as the handler read it was a number at least that.
WroteMax(was, now, n) ==
    now # was =>
        /\ now = ToString(max[n])
        /\ max[n] \in {4, 6}
        /\ max[n] >= 1
        /\ IsNumeral(pre.paramsTrial)
        /\ parseInt(pre.paramsTrial) >= max[n]
        /\ parseInt(now) <= parseInt(pre.paramsTrial)

\* C16: with params.subject = s in 1..19, the only value a handler writes
\* into a trial element is max[s - 1] (4 or 6, never below 1), and only
\* when parseInt(params.trial) >= max[s - 1]: no trial element is raised
\* above the params.trial the handler read.
C16_OnlyMaxWritten ==
    \A n \in Subjects :
        ((Settled("subject") \/ Settled("trial")) /\ SubjectIs(n)) =>
            /\ WroteMax(pre.numberTrial, numberTrial, n)
            /\ WroteMax(pre.rangeTrial, rangeTrial, n)

\* changeSubjectHandler read params.trial = 7 with the trial elements at 4
\* and has raised them to the 6 of subject 1, not above 7.
C16_Witness ==
    /\ Settled("subject")
    /\ SubjectIs(1)
    /\ pre.paramsTrial = "7"
    /\ pre.numberTrial = "4" /\ pre.rangeTrial = "4"
    /\ numberTrial = "6" /\ rangeTrial = "6"

----------------------------------------------------------------------------
TypeOK ==
    /\ attached \in BOOLEAN
    /\ last \in {"none", "subject", "trial"}
    /\ Len(pending) <= 1
====
